---------------------------- MODULE Spec2Model ----------------------------
(***************************************************************************)
(* Model of the YouTube-transcript plugin: src/src/main.ts (settings,      *)
(* insertTranscript, formatTranscript, formatTimestamp) and                *)
(* src/src/transcript-view.ts (TranscriptView: the interactive panel).     *)
(*                                                                         *)
(* Text is modelled as a sequence of strings.  Where the code looks inside *)
(* a text (the editor document, a formatted timestamp, a settings field)   *)
(* every element is one character; a text the code only copies (a caption  *)
(* fragment, a title, a url) is one element.  Concatenation is \o.         *)
(* A number of seconds that may carry a fraction (line.offset / 1000) is   *)
(* represented by its whole number of milliseconds.                        *)
(***************************************************************************)
EXTENDS Integers, Sequences, FiniteSets, TLC

VARIABLES settings, editor, ins, notices, leaves, view, fmt, md

vars == <<settings, editor, ins, notices, leaves, view, fmt, md>>

(***************************************************************************)
(* Bounds of the model.                                                    *)
(***************************************************************************)
MaxHours == 11
MaxLines == 5
MaxFragments == 5
MaxCadence == 5
MaxDocPieces == 4

(***************************************************************************)
(* JavaScript primitives used by the code.                                 *)
(***************************************************************************)
NL == "\n"
CR == "\r"

DigitChars == <<"0", "1", "2", "3", "4", "5", "6", "7", "8", "9">>

IsDigit(ch) == \E d \in 1..10 : DigitChars[d] = ch

DigitValue(ch) == (CHOOSE d \in 1..10 : DigitChars[d] = ch) - 1

RECURSIVE toString(_)
\* Number.prototype.toString / toFixed() of a non-negative integer
toString(n) ==
    IF n < 10 THEN <<DigitChars[n + 1]>>
    ELSE toString(n \div 10) \o <<DigitChars[(n % 10) + 1]>>

RECURSIVE padStart(_, _, _)
\* String.prototype.padStart with a one-character pad string
padStart(s, targetLength, padString) ==
    IF Len(s) >= targetLength THEN s
    ELSE padStart(<<padString>> \o s, targetLength, padString)

\* a % b === 0 in JavaScript for a >= 0: a % 0 is NaN (never === 0), and the
\* remainder takes the sign of the dividend, so a % b is 0 iff |b| divides a
JsModIsZero(a, b) ==
    /\ b # 0
    /\ a % (IF b < 0 THEN -b ELSE b) = 0

IsSpace(ch) == ch \in {" ", "\t", NL, CR}

RECURSIVE SkipSpaces(_)
SkipSpaces(s) == IF s # <<>> /\ IsSpace(Head(s)) THEN SkipSpaces(Tail(s)) ELSE s

RECURSIVE DigitPrefixValue(_, _)
\* value of the longest prefix of digits of s, continuing from acc
DigitPrefixValue(s, acc) ==
    IF s # <<>> /\ IsDigit(Head(s))
    THEN DigitPrefixValue(Tail(s), acc * 10 + DigitValue(Head(s)))
    ELSE acc

\* Number.parseInt(value): leading white space, an optional sign, then the
\* longest run of decimal digits; NaN when there is no digit.  The result is
\* [isNaN, value]: Number.isNaN(v) is v.isNaN.
parseInt(value) ==
    LET t == SkipSpaces(value)
        neg == t # <<>> /\ Head(t) = "-"
        u == IF t # <<>> /\ Head(t) \in {"-", "+"} THEN Tail(t) ELSE t
    IN  IF u = <<>> \/ ~IsDigit(Head(u)) THEN [isNaN |-> TRUE, value |-> 0]
        ELSE IF neg THEN [isNaN |-> FALSE, value |-> 0 - DigitPrefixValue(u, 0)]
        ELSE [isNaN |-> FALSE, value |-> DigitPrefixValue(u, 0)]

(***************************************************************************)
(* YTranscriptPlugin.formatTimestamp (main.ts:151-161).  The argument is   *)
(* the number of seconds given as milliseconds: seconds = millis / 1000.   *)
(***************************************************************************)
formatTimestampRounding(millis) ==
    LET seconds == (millis + 500) \div 1000
        hrs == seconds \div 3600
        mins == (seconds % 3600) \div 60
        secs == seconds % 60
    IN  IF hrs > 0
        THEN toString(hrs) \o <<":">> \o padStart(toString(mins), 2, "0")
                 \o <<":">> \o padStart(toString(secs), 2, "0")
        ELSE toString(mins) \o <<":">> \o padStart(toString(secs), 2, "0")

formatTimestamp(millis) ==
    LET hrs == millis \div 3600000
        mins == (millis % 3600000) \div 60000
        secs == (millis % 60000) \div 1000
    IN  IF hrs > 0
        THEN toString(hrs) \o <<":">> \o padStart(toString(mins), 2, "0")
                 \o <<":">> \o padStart(toString(secs), 2, "0")
        ELSE toString(mins) \o <<":">> \o padStart(toString(secs), 2, "0")

(***************************************************************************)
(* YTranscriptPlugin.formatTranscript (main.ts:126-149).  A transcript is  *)
(* [present, title, lines]: present is FALSE for a null response, title is *)
(* "" when the response carries none, lines is a sequence of               *)
(* [text, offset] with the offset in milliseconds.  timestampMod is the    *)
(* value of this.settings.timestampMod, read in every iteration of the     *)
(* synchronous forEach.                                                    *)
(***************************************************************************)
timestampMarker(line) == <<"**[">> \o formatTimestamp(line.offset) \o <<"]** ">>

RECURSIVE formatLinesBreakBefore(_, _, _, _)
formatLinesBreakBefore(lines, index, timestampMod, output) ==
    IF index >= Len(lines) THEN output
    ELSE LET line == lines[index + 1]
             marked == IF JsModIsZero(index, timestampMod)
                       THEN output \o timestampMarker(line)
                       ELSE output
             texted == marked \o <<line.text, " ">>
             broken == IF JsModIsZero(index, timestampMod * 1)
                       THEN texted \o <<NL, NL>>
                       ELSE texted
         IN  formatLinesBreakBefore(lines, index + 1, timestampMod, broken)

RECURSIVE formatLines(_, _, _, _)
\* transcript.lines.forEach((line, index) => ...), from `index` on
formatLines(lines, index, timestampMod, output) ==
    IF index >= Len(lines) THEN output
    ELSE LET line == lines[index + 1]
             marked == IF JsModIsZero(index, timestampMod)
                       THEN output \o timestampMarker(line)
                       ELSE output
             texted == marked \o <<line.text, " ">>
             broken == IF JsModIsZero(index + 1, timestampMod * 1)
                       THEN texted \o <<NL, NL>>
                       ELSE texted
         IN  formatLines(lines, index + 1, timestampMod, broken)

transcriptHeading(transcript, url) ==
    LET title == IF transcript.title # "" THEN transcript.title
                 ELSE "YouTube Transcript"
    IN  <<"## ", title, NL, NL, "[Video Link](", url, ")", NL, NL>>

formatTranscript(transcript, url, timestampMod) ==
    formatLines(transcript.lines, 0, timestampMod, transcriptHeading(transcript, url))

(***************************************************************************)
(* The frontmatter pattern of insertTranscript (main.ts:96),               *)
(*     /^---\r?\n(?:.+?\r?\n)+?---\r?\n/s                                  *)
(* matched by backtracking as a JavaScript engine does.  A position is the *)
(* 1-based index of the next character to read; 0 means no match.  With    *)
(* the s flag the dot takes any character, line ends included.             *)
(***************************************************************************)
At(s, i) == IF i >= 1 /\ i <= Len(s) THEN s[i] ELSE ""

\* \r?\n at p: the position after it
matchLineEnd(s, p) ==
    IF At(s, p) = CR /\ At(s, p + 1) = NL THEN p + 2
    ELSE IF At(s, p) = NL THEN p + 1
    ELSE 0

\* ---\r?\n at p: the position after it
matchDashes(s, p) ==
    IF At(s, p) = "-" /\ At(s, p + 1) = "-" /\ At(s, p + 2) = "-"
    THEN matchLineEnd(s, p + 3)
    ELSE 0

RECURSIVE matchGroup(_, _, _)
RECURSIVE matchAfterGroup(_, _)
\* one (?:.+?\r?\n) at p whose lazy .+? takes k characters, then the rest of
\* the pattern; on failure the dot takes one character more
matchGroup(s, p, k) ==
    IF p + k - 1 > Len(s) THEN 0
    ELSE LET q == matchLineEnd(s, p + k)
             r == IF q = 0 THEN 0 ELSE matchAfterGroup(s, q)
         IN  IF r # 0 THEN r ELSE matchGroup(s, p, k + 1)

\* the lazy +? after an iteration that ended at q: leave the group when the
\* closing ---\r?\n matches, otherwise iterate once more
matchAfterGroup(s, q) ==
    LET d == matchDashes(s, q)
    IN  IF d # 0 THEN d ELSE matchGroup(s, q, 1)

\* frontmatterMatch[0].length, or -1 when content.match(...) is null
frontmatterMatchLength(content) ==
    LET h == matchDashes(content, 1)
        e == IF h = 0 THEN 0 ELSE matchGroup(content, h, 1)
    IN  IF e = 0 THEN -1 ELSE e - 1

\* content.substring(from).startsWith("\n\n")
startsWithBlankLine(content, from) ==
    At(content, from + 1) = NL /\ At(content, from + 2) = NL

\* editor.replaceRange(text, position) with no selection: an insertion
replaceRange(content, text, offset) ==
    SubSeq(content, 1, offset) \o text \o SubSeq(content, offset + 1, Len(content))

\* main.ts:91-114: [at, text] of the replaceRange call
planInsertionStrict(content, cursorOffset, formattedTranscript) ==
    LET frontmatterEndPos == frontmatterMatchLength(content)
    IN  IF frontmatterEndPos >= 0 /\ cursorOffset < frontmatterEndPos
        THEN [at |-> frontmatterEndPos,
              text |-> IF ~startsWithBlankLine(content, frontmatterEndPos)
                       THEN <<NL>> \o formattedTranscript
                       ELSE formattedTranscript]
        ELSE [at |-> cursorOffset, text |-> formattedTranscript]

planInsertion(content, cursorOffset, formattedTranscript) ==
    LET frontmatterEndPos == frontmatterMatchLength(content)
    IN  IF frontmatterEndPos >= 0 /\ cursorOffset <= frontmatterEndPos
        THEN [at |-> frontmatterEndPos,
              text |-> IF ~startsWithBlankLine(content, frontmatterEndPos)
                       THEN <<NL>> \o formattedTranscript
                       ELSE formattedTranscript]
        ELSE [at |-> cursorOffset, text |-> formattedTranscript]

(***************************************************************************)
(* Inputs.                                                                 *)
(***************************************************************************)
Urls == {"https://youtu.be/v1?x=1", "https://youtu.be/v2?x=1"}

\* the url the insert command is given
CommandUrls == {"https://youtu.be/v1?x=1"}

\* texts typed into the "Timestamp interval" field
TimestampFieldValues == {<<"1">>, <<"2">>, <<"0">>, <<"-", "2">>, <<"x">>}

LangValues == {"en", "de"}
CountryValues == {"EN", "DE"}

\* the caption fragments: the text of a fragment is fixed by its index
FragmentTexts == <<"Hello", "world", "foo", "bar", "baz", "qux">>
FragmentOffsets == {0, 61500, 3725999}

LinesOfLength(n, offsets) ==
    {[i \in 1..n |-> [text |-> FragmentTexts[i], offset |-> o[i]]] : o \in [1..n -> offsets]}

LinesUpTo(n, offsets) == UNION {LinesOfLength(k, offsets) : k \in 0..n}

NullTranscript == [present |-> FALSE, title |-> "", lines |-> <<>>]

TranscriptsOf(lines) ==
    {NullTranscript} \cup [present : {TRUE}, title : {"", "Talk"}, lines : lines]

IsSorted(lines) ==
    \A i \in 1..(Len(lines) - 1) : lines[i].offset <= lines[i + 1].offset

\* the responses of the insert command's specification
Transcripts ==
    TranscriptsOf({l \in LinesUpTo(MaxLines, {1500, 3725999}) : IsSorted(l)})

\* what a rejected fetch throws: an Error with a message, or another value
FetchErrors == {[isError |-> TRUE, message |-> "Network error"],
                [isError |-> FALSE, message |-> "boom"]}

\* the documents of the insert command's specification
EditorDocs == {<<"b">>}

(***************************************************************************)
(* State.  settings: the plugin's settings object, DEFAULT_SETTINGS        *)
(* (main.ts:20-24) overlaid with the stored data (main.ts:167-173).  The   *)
(* defaults hold no leafUrls: the list the panel keeps in the settings     *)
(* (transcript-view.ts:27,44,48) is there only when the stored data holds  *)
(* it, and is undefined (defined = FALSE) otherwise.  editor: the          *)
(* host editor's document and cursor offset.  ins: the locals of the one   *)
(* insertTranscript call of a behaviour and where it stands; modAtStart    *)
(* and mod record the values of settings.timestampMod when the call began  *)
(* and when formatTranscript read it.  notices: the Notice texts shown.    *)
(***************************************************************************)
DEFAULT_SETTINGS == [timestampMod |-> 5, lang |-> "en", country |-> "EN"]

\* what loadData() resolves with: nothing stored yet, or a data.json that
\* holds an empty leafUrls list
NothingStored == [leafUrls |-> [defined |-> FALSE, arr |-> <<>>, minusOne |-> ""]]

StoredWithLeafUrls == [leafUrls |-> [defined |-> TRUE, arr |-> <<>>, minusOne |-> ""]]

\* Object.assign({}, DEFAULT_SETTINGS, data)
loadSettings(data) ==
    [timestampMod |-> DEFAULT_SETTINGS.timestampMod, lang |-> DEFAULT_SETTINGS.lang,
     country |-> DEFAULT_SETTINGS.country, leafUrls |-> data.leafUrls]

InsIdle ==
    [phase |-> "idle", url |-> "", config |-> [lang |-> "", country |-> ""],
     transcript |-> NullTranscript, formattedTranscript |-> <<>>,
     content |-> <<>>, cursorOffset |-> 0, insertPosition |-> 0,
     inserted |-> <<>>, modAtStart |-> 0, mod |-> 0]

SettingsInit(stored) == settings \in {loadSettings(data) : data \in stored}

InsInit == ins = InsIdle /\ notices = <<>>

EditorInit(docs) ==
    editor \in UNION {{[content |-> d, cursor |-> c] : c \in 0..Len(d)} : d \in docs}

(***************************************************************************)
(* YTranscriptSettingTab.display: the onChange handlers (main.ts:201-207,  *)
(* 216-219, 228-231).                                                      *)
(***************************************************************************)
onChangeTimestampMod(value) ==
    LET v == parseInt(value)
    IN  [settings EXCEPT !.timestampMod = IF v.isNaN THEN 5 ELSE v.value]

ChangeTimestampMod(value) ==
    /\ settings' = onChangeTimestampMod(value)
    /\ UNCHANGED <<editor, ins, notices, leaves, view, fmt, md>>

ChangeLang(value) ==
    /\ settings' = [settings EXCEPT !.lang = value]
    /\ UNCHANGED <<editor, ins, notices, leaves, view, fmt, md>>

ChangeCountry(value) ==
    /\ settings' = [settings EXCEPT !.country = value]
    /\ UNCHANGED <<editor, ins, notices, leaves, view, fmt, md>>

(***************************************************************************)
(* YTranscriptPlugin.insertTranscript (main.ts:72-124).                    *)
(***************************************************************************)
\* lines 73-81: up to the await of fetchTranscript
InsertTranscript(url) ==
    /\ ins.phase = "idle"
    /\ notices' = Append(notices, <<"Fetching YouTube transcript...">>)
    /\ ins' = [ins EXCEPT !.phase = "fetching", !.url = url,
                          !.config = [lang |-> settings.lang,
                                      country |-> settings.country],
                          !.modAtStart = settings.timestampMod]
    /\ UNCHANGED <<settings, editor, leaves, view, fmt, md>>

\* !transcript || transcript.lines.length === 0
noTranscript(transcript) == ~transcript.present \/ Len(transcript.lines) = 0

\* the cadence formatTranscript groups by: this.settings.timestampMod
cadenceAtStart == ins.modAtStart

cadenceRead == settings.timestampMod

\* lines 83-119: the fetch resolved with `transcript`
FetchResolved(transcript) ==
    /\ ins.phase = "fetching"
    /\ IF noTranscript(transcript)
       THEN /\ notices' = Append(notices, <<"No transcript found for this video">>)
            /\ ins' = [ins EXCEPT !.phase = "empty", !.transcript = transcript]
            /\ UNCHANGED editor
       ELSE LET formatted == formatTranscript(transcript, ins.url, cadenceRead)
                plan == planInsertion(editor.content, editor.cursor, formatted)
            IN  /\ editor' = [editor EXCEPT
                                 !.content = replaceRange(editor.content, plan.text, plan.at)]
                /\ notices' = Append(notices, <<"Transcript inserted successfully">>)
                /\ ins' = [ins EXCEPT !.phase = "inserted",
                                      !.transcript = transcript,
                                      !.formattedTranscript = formatted,
                                      !.content = editor.content,
                                      !.cursorOffset = editor.cursor,
                                      !.insertPosition = plan.at,
                                      !.inserted = plan.text,
                                      !.mod = cadenceRead]
    /\ UNCHANGED <<settings, leaves, view, fmt, md>>

\* lines 120-123: the fetch rejected with `error`
FetchRejected(error) ==
    /\ ins.phase = "fetching"
    /\ notices' = Append(notices,
           <<"Failed to fetch transcript: ",
             IF error.isError THEN error.message ELSE "Unknown error">>)
    /\ ins' = [ins EXCEPT !.phase = "failed"]
    /\ UNCHANGED <<settings, editor, leaves, view, fmt, md>>

(***************************************************************************)
(* TranscriptView (transcript-view.ts).  leaves is the host's list of open *)
(* panels of this type, in workspace order.  settings.leafUrls is a        *)
(* JavaScript array: arr holds its elements ("" for a hole, read as        *)
(* undefined) and minusOne the property "-1" that leafUrls[-1] = url sets. *)
(* view[p] holds the locals of panel p's setEphemeralState call and the    *)
(* children of its innerContainerEl (content); stateUrl, fetchIssued and   *)
(* threw record the url of the payload, whether fetchTranscript was called *)
(* and which await threw.                                                  *)
(***************************************************************************)
PanelIds == {"p1", "p2"}

NoData == [present |-> FALSE, lines |-> <<>>]

\* what YoutubeTranscript.fetchTranscript resolves with: null or the lines
ViewDataOf(lines) == {NoData} \cup [present : {TRUE}, lines : lines]

VideoTitles == {"Talk"}

ViewErrors == {"Error: request failed"}

ViewClosed ==
    [pc |-> "closed", leafIndex |-> -1, stateUrl |-> "", url |-> "",
     timestampMod |-> 0, lang |-> "", country |-> "", content |-> <<>>,
     data |-> NoData, quote |-> <<>>, quoteTimeOffset |-> 0,
     fetchIssued |-> FALSE, threw |-> ""]

ViewIdle == leaves = <<>> /\ view = [p \in PanelIds |-> ViewClosed]

Element(kind, text, timestamp, href) ==
    [kind |-> kind, text |-> text, timestamp |-> timestamp, href |-> href]

\* lines 53-56
titleEl(videoTitle) == Element("title", <<videoTitle>>, <<>>, <<>>)

\* lines 63-69
noTranscriptFound ==
    <<Element("h4", <<"No transcript found">>, <<>>, <<>>),
      Element("div", <<"Please check if video contains any transcript or try adjust language and country in plugin settings.">>, <<>>, <<>>)>>

\* lines 136-138: the catch block
catchErrorKeeping(content, err) ==
    content \o <<Element("h4", <<"Error">>, <<>>, <<>>), Element("div", <<err>>, <<>>, <<>>)>>

catchError(content, err) ==
    <<Element("h4", <<"Error">>, <<>>, <<>>), Element("div", <<err>>, <<>>, <<>>)>>

\* lines 88-128: the div.transcript-block of one flushed group
transcriptBlock(url, quote, quoteTimeOffset) ==
    Element("transcript-block", quote, toString(quoteTimeOffset),
            <<url, "&t=">> \o toString(quoteTimeOffset \div 1000))

RECURSIVE groupLinesAnchorAtFlush(_, _, _, _, _)
groupLinesAnchorAtFlush(data, i, timestampMod, url, acc) ==
    IF i >= Len(data) THEN acc
    ELSE LET line == data[i + 1]
         IN  IF i = 0
             THEN groupLinesAnchorAtFlush(data, i + 1, timestampMod, url,
                      [acc EXCEPT !.quoteTimeOffset = line.offset,
                                  !.quote = acc.quote \o <<line.text, " ">>])
             ELSE IF JsModIsZero(i, timestampMod)
             THEN groupLinesAnchorAtFlush(data, i + 1, timestampMod, url,
                      [emitted |-> Append(acc.emitted,
                                       transcriptBlock(url, acc.quote, line.offset)),
                       quote |-> <<line.text, " ">>,
                       quoteTimeOffset |-> line.offset])
             ELSE groupLinesAnchorAtFlush(data, i + 1, timestampMod, url,
                      [acc EXCEPT !.quote = acc.quote \o <<line.text, " ">>])

RECURSIVE groupLines(_, _, _, _, _)
\* lines 79-134: data.forEach((line, i) => ...), from i on; acc holds the
\* blocks appended so far and the locals quote and quoteTimeOffset
groupLines(data, i, timestampMod, url, acc) ==
    IF i >= Len(data) THEN acc
    ELSE LET line == data[i + 1]
         IN  IF i = 0
             THEN groupLines(data, i + 1, timestampMod, url,
                      [acc EXCEPT !.quoteTimeOffset = line.offset,
                                  !.quote = acc.quote \o <<line.text, " ">>])
             ELSE IF JsModIsZero(i, timestampMod)
             THEN groupLines(data, i + 1, timestampMod, url,
                      [emitted |-> Append(acc.emitted,
                                       transcriptBlock(url, acc.quote, acc.quoteTimeOffset)),
                       quote |-> <<line.text, " ">>,
                       quoteTimeOffset |-> line.offset])
             ELSE groupLines(data, i + 1, timestampMod, url,
                      [acc EXCEPT !.quote = acc.quote \o <<line.text, " ">>])

\* leaves.findIndex((leaf) => leaf === this.leaf)
getLeafIndex(openLeaves, p) ==
    IF \E i \in 1..Len(openLeaves) : openLeaves[i] = p
    THEN (CHOOSE i \in 1..Len(openLeaves) : openLeaves[i] = p) - 1
    ELSE -1

\* leafUrls[leafIndex]
leafUrlsGet(leafUrls, leafIndex) ==
    IF leafIndex = -1 THEN leafUrls.minusOne
    ELSE IF leafIndex < Len(leafUrls.arr) THEN leafUrls.arr[leafIndex + 1]
    ELSE ""

\* leafUrls[leafIndex] = url
leafUrlsSet(leafUrls, leafIndex, url) ==
    IF leafIndex = -1 THEN [leafUrls EXCEPT !.minusOne = url]
    ELSE [leafUrls EXCEPT !.arr =
              [i \in 1..(IF leafIndex + 1 > Len(leafUrls.arr) THEN leafIndex + 1
                         ELSE Len(leafUrls.arr)) |->
                  IF i = leafIndex + 1 THEN url
                  ELSE IF i <= Len(leafUrls.arr) THEN leafUrls.arr[i]
                  ELSE ""]]

\* leafUrls.splice(leafIndex, 1): a negative start counts from the end;
\* on an undefined leafUrls the call throws and changes nothing
leafUrlsSplice(leafUrls, leafIndex) ==
    LET n == Len(leafUrls.arr)
        start == IF leafIndex < 0
                 THEN (IF n + leafIndex < 0 THEN 0 ELSE n + leafIndex)
                 ELSE (IF leafIndex > n THEN n ELSE leafIndex)
    IN  IF ~leafUrls.defined \/ start >= n THEN leafUrls
        ELSE [leafUrls EXCEPT !.arr =
                  SubSeq(leafUrls.arr, 1, start) \o SubSeq(leafUrls.arr, start + 2, n)]

RemoveLeaf(p) == SelectSeq(leaves, LAMBDA q : q # p)

\* the host opens a panel: the leaf joins the list, then onOpen (lines 17-23)
OpenLeaf(p) ==
    /\ view[p].pc = "closed"
    /\ leaves' = Append(leaves, p)
    /\ view' = [view EXCEPT ![p] = [ViewClosed EXCEPT !.pc = "open"]]
    /\ UNCHANGED <<settings, editor, ins, notices, fmt, md>>

\* lines 48-52: the settings are read and the title lookup is started
readSettings(v, s) ==
    [v EXCEPT !.pc = "title", !.timestampMod = s.timestampMod, !.lang = s.lang,
              !.country = s.country, !.url = leafUrlsGet(s.leafUrls, v.leafIndex)]

\* lines 40-46 with a url in the state (then the await of saveSettings),
\* lines 40-52 without one.  With leafUrls undefined line 44, or line 49,
\* throws a TypeError outside the try block and the call ends there.
SetEphemeralState(p, stateUrl) ==
    /\ view[p].pc = "open"
    /\ LET leafIndex == getLeafIndex(leaves, p)
           started == [view[p] EXCEPT !.leafIndex = leafIndex, !.stateUrl = stateUrl]
       IN  IF ~settings.leafUrls.defined
           THEN /\ view' = [view EXCEPT ![p] = [started EXCEPT !.pc = "rejected"]]
                /\ UNCHANGED settings
           ELSE IF stateUrl # ""
           THEN /\ settings' = [settings EXCEPT
                                   !.leafUrls = leafUrlsSet(@, leafIndex, stateUrl)]
                /\ view' = [view EXCEPT ![p] = [started EXCEPT !.pc = "saving"]]
           ELSE /\ view' = [view EXCEPT ![p] = readSettings(started, settings)]
                /\ UNCHANGED settings
    /\ UNCHANGED <<editor, ins, notices, leaves, fmt, md>>

\* saveSettings resolved: lines 48-52
SaveSettingsResolved(p) ==
    /\ view[p].pc = "saving"
    /\ view' = [view EXCEPT ![p] = readSettings(@, settings)]
    /\ UNCHANGED <<settings, editor, ins, notices, leaves, fmt, md>>

\* saveSettings rejected outside the try block: the call ends there
SaveSettingsRejected(p) ==
    /\ view[p].pc = "saving"
    /\ view' = [view EXCEPT ![p].pc = "rejected"]
    /\ UNCHANGED <<settings, editor, ins, notices, leaves, fmt, md>>

\* getYouTubeVideoTitle resolved: lines 53-61, up to the await of the fetch
TitleResolved(p, videoTitle) ==
    /\ view[p].pc = "title"
    /\ view' = [view EXCEPT ![p].pc = "fetching",
                            ![p].content = Append(@, titleEl(videoTitle)),
                            ![p].fetchIssued = TRUE]
    /\ UNCHANGED <<settings, editor, ins, notices, leaves, fmt, md>>

\* getYouTubeVideoTitle rejected: lines 135-139
TitleRejected(p, err) ==
    /\ view[p].pc = "title"
    /\ view' = [view EXCEPT ![p].pc = "shown", ![p].threw = "title",
                            ![p].content = catchError(@, err)]
    /\ UNCHANGED <<settings, editor, ins, notices, leaves, fmt, md>>

\* fetchTranscript resolved with `data`: lines 62-134
ViewFetchResolved(p, data) ==
    /\ view[p].pc = "fetching"
    /\ IF ~data.present
       THEN view' = [view EXCEPT ![p].pc = "shown", ![p].data = data,
                                 ![p].content = noTranscriptFound]
       ELSE LET acc == groupLines(data.lines, 0, view[p].timestampMod, view[p].url,
                           [emitted |-> <<>>, quote |-> <<>>, quoteTimeOffset |-> 0])
            IN  view' = [view EXCEPT ![p].pc = "shown", ![p].data = data,
                                     ![p].content = @ \o acc.emitted,
                                     ![p].quote = acc.quote,
                                     ![p].quoteTimeOffset = acc.quoteTimeOffset]
    /\ UNCHANGED <<settings, editor, ins, notices, leaves, fmt, md>>

\* fetchTranscript rejected: lines 135-139
ViewFetchRejected(p, err) ==
    /\ view[p].pc = "fetching"
    /\ view' = [view EXCEPT ![p].pc = "shown", ![p].threw = "fetch",
                            ![p].content = catchError(@, err)]
    /\ UNCHANGED <<settings, editor, ins, notices, leaves, fmt, md>>

\* lines 25-28, run by the host while the leaf is still in its list; the
\* host then drops the leaf.  What a pending call of the closed view would
\* still do happens on a detached element and reads no state another panel
\* sees: the call is dropped with the view.
OnCloseAttached(p) ==
    /\ view[p].pc # "closed"
    /\ settings' = [settings EXCEPT
                        !.leafUrls = leafUrlsSplice(@, getLeafIndex(leaves, p))]
    /\ leaves' = RemoveLeaf(p)
    /\ view' = [view EXCEPT ![p] = ViewClosed]
    /\ UNCHANGED <<editor, ins, notices, fmt, md>>

\* lines 25-28, run after the host dropped the leaf from its list:
\* getLeafIndex() finds nothing and returns -1
OnCloseDetached(p) ==
    /\ view[p].pc # "closed"
    /\ settings' = [settings EXCEPT
                        !.leafUrls = leafUrlsSplice(@, getLeafIndex(RemoveLeaf(p), p))]
    /\ leaves' = RemoveLeaf(p)
    /\ view' = [view EXCEPT ![p] = ViewClosed]
    /\ UNCHANGED <<editor, ins, notices, fmt, md>>

(***************************************************************************)
(* The insert command with the settings tab open beside it.                *)
(***************************************************************************)
FmtIdle == fmt = [millis |-> 0, called |-> FALSE, result |-> <<>>]

MdIdle == md = [transcript |-> NullTranscript, url |-> "", called |-> FALSE, output |-> <<>>]

Init ==
    /\ SettingsInit({NothingStored})
    /\ InsInit
    /\ EditorInit(EditorDocs)
    /\ ViewIdle
    /\ FmtIdle
    /\ MdIdle

Next ==
    \/ \E value \in TimestampFieldValues : ChangeTimestampMod(value)
    \/ \E value \in LangValues : ChangeLang(value)
    \/ \E value \in CountryValues : ChangeCountry(value)
    \/ \E url \in CommandUrls : InsertTranscript(url)
    \/ \E transcript \in Transcripts : FetchResolved(transcript)
    \/ \E error \in FetchErrors : FetchRejected(error)

Spec == Init /\ [][Next]_vars

(***************************************************************************)
(* One interactive panel with the settings tab open beside it.             *)
(***************************************************************************)
ViewData == ViewDataOf(LinesUpTo(MaxFragments, FragmentOffsets))

InitView ==
    /\ SettingsInit({NothingStored, StoredWithLeafUrls})
    /\ InsInit
    /\ EditorInit({<<>>})
    /\ ViewIdle
    /\ FmtIdle
    /\ MdIdle

NextView ==
    \/ \E value \in TimestampFieldValues : ChangeTimestampMod(value)
    \/ \E p \in {"p1"} :
          \/ OpenLeaf(p)
          \/ \E stateUrl \in Urls \cup {""} : SetEphemeralState(p, stateUrl)
          \/ SaveSettingsResolved(p)
          \/ SaveSettingsRejected(p)
          \/ \E videoTitle \in VideoTitles : TitleResolved(p, videoTitle)
          \/ \E err \in ViewErrors : TitleRejected(p, err)
          \/ \E data \in ViewData : ViewFetchResolved(p, data)
          \/ \E err \in ViewErrors : ViewFetchRejected(p, err)
          \/ OnCloseAttached(p)
          \/ OnCloseDetached(p)

SpecView == InitView /\ [][NextView]_vars

(***************************************************************************)
(* Several panels opened and closed in any order.                          *)
(***************************************************************************)
LeavesData == ViewDataOf(LinesUpTo(1, {0}))

NextLeaves ==
    \E p \in PanelIds :
       \/ OpenLeaf(p)
       \/ \E stateUrl \in Urls \cup {""} : SetEphemeralState(p, stateUrl)
       \/ SaveSettingsResolved(p)
       \/ SaveSettingsRejected(p)
       \/ \E videoTitle \in VideoTitles : TitleResolved(p, videoTitle)
       \/ \E err \in ViewErrors : TitleRejected(p, err)
       \/ \E data \in LeavesData : ViewFetchResolved(p, data)
       \/ \E err \in ViewErrors : ViewFetchRejected(p, err)
       \/ OnCloseAttached(p)
       \/ OnCloseDetached(p)

SpecLeaves == InitView /\ [][NextLeaves]_vars

(***************************************************************************)
(* The insert command over documents with and without frontmatter.  A      *)
(* document is up to MaxDocPieces lines (a --- line, a line of text, an    *)
(* empty line) and then nothing, two empty lines, or text without a line   *)
(* end; its line ends are all \n or all \r\n.                              *)
(***************************************************************************)
DocPieces == {<<"-", "-", "-", NL>>, <<"a", NL>>, <<NL>>}

DocTails == {<<>>, <<NL, NL>>, <<"b">>}

RECURSIVE WithCrLf(_)
WithCrLf(d) ==
    IF d = <<>> THEN <<>>
    ELSE (IF Head(d) = NL THEN <<CR, NL>> ELSE <<Head(d)>>) \o WithCrLf(Tail(d))

RECURSIVE DocsOfPieces(_)
DocsOfPieces(n) ==
    IF n = 0 THEN {<<>>}
    ELSE LET shorter == DocsOfPieces(n - 1)
         IN  shorter \cup {d \o piece : d \in shorter, piece \in DocPieces}

LfDocs == {d \o tail : d \in DocsOfPieces(MaxDocPieces), tail \in DocTails}

PlanDocs == LfDocs \cup {WithCrLf(d) : d \in LfDocs}

PlanTranscripts ==
    {NullTranscript} \cup [present : {TRUE}, title : {""}, lines : LinesUpTo(1, {0})]

InitPlan ==
    /\ SettingsInit({NothingStored})
    /\ InsInit
    /\ EditorInit(PlanDocs)
    /\ ViewIdle
    /\ FmtIdle
    /\ MdIdle

NextPlan ==
    \/ \E url \in CommandUrls : InsertTranscript(url)
    \/ \E transcript \in PlanTranscripts : FetchResolved(transcript)
    \/ \E error \in FetchErrors : FetchRejected(error)

SpecPlan == InitPlan /\ [][NextPlan]_vars

(***************************************************************************)
(* formatTimestamp over the offsets up to MaxHours hours, whole seconds    *)
(* and seconds with a fraction.                                            *)
(***************************************************************************)
FractionMillis == {0, 900}

TimestampInputs ==
    {((h * 60 + m) * 60 + sec) * 1000 + f :
        h \in 0..MaxHours, m \in 0..59, sec \in 0..59, f \in FractionMillis}

InitFmt ==
    /\ SettingsInit({NothingStored})
    /\ InsInit
    /\ EditorInit({<<>>})
    /\ ViewIdle
    /\ fmt \in [millis : TimestampInputs, called : {FALSE}, result : {<<>>}]
    /\ MdIdle

FormatTimestampCall ==
    /\ ~fmt.called
    /\ fmt' = [fmt EXCEPT !.called = TRUE, !.result = formatTimestamp(fmt.millis)]
    /\ UNCHANGED <<settings, editor, ins, notices, leaves, view, md>>

NextFmt == FormatTimestampCall

SpecFmt == InitFmt /\ [][NextFmt]_vars

(***************************************************************************)
(* formatTranscript over the responses with up to MaxLines lines and the   *)
(* cadences the settings field can store, from -2 to MaxCadence.           *)
(***************************************************************************)
MarkdownTranscripts ==
    [present : {TRUE}, title : {"", "Talk"}, lines : LinesUpTo(MaxLines, {1500, 3725999})]

InitMarkdown ==
    /\ settings \in {[loadSettings(NothingStored) EXCEPT !.timestampMod = c] :
                        c \in -2..MaxCadence}
    /\ InsInit
    /\ EditorInit({<<>>})
    /\ ViewIdle
    /\ FmtIdle
    /\ md \in [transcript : MarkdownTranscripts, url : CommandUrls,
               called : {FALSE}, output : {<<>>}]

FormatTranscriptCall ==
    /\ ~md.called
    /\ md' = [md EXCEPT !.called = TRUE,
                        !.output = formatTranscript(md.transcript, md.url, cadenceRead)]
    /\ UNCHANGED <<settings, editor, ins, notices, leaves, view, fmt>>

NextMarkdown == FormatTranscriptCall

SpecMarkdown == InitMarkdown /\ [][NextMarkdown]_vars

(***************************************************************************)
(* What the claims are stated with.                                        *)
(***************************************************************************)
AllDigits(s) == s # <<>> /\ \A i \in 1..Len(s) : IsDigit(s[i])

RECURSIVE NumberOf(_)
\* the number a sequence of decimal digits writes
NumberOf(s) ==
    IF s = <<>> THEN 0
    ELSE NumberOf(SubSeq(s, 1, Len(s) - 1)) * 10 + DigitValue(s[Len(s)])

RECURSIVE SplitAtColons(_)
\* the fields of a text between its colons
SplitAtColons(s) ==
    IF \A i \in 1..Len(s) : s[i] # ":" THEN <<s>>
    ELSE LET c == CHOOSE i \in 1..Len(s) : s[i] = ":" /\ \A j \in 1..(i - 1) : s[j] # ":"
         IN  <<SubSeq(s, 1, c - 1)>> \o SplitAtColons(SubSeq(s, c + 1, Len(s)))

\* a number written without padding: no leading zero but for "0" itself
Unpadded(field) == AllDigits(field) /\ (Len(field) > 1 => field[1] # "0")

TwoDigits(field, n) == AllDigits(field) /\ Len(field) = 2 /\ NumberOf(field) = n

CeilDiv(n, c) == (n + c - 1) \div c

\* C10: formatTimestamp of s whole seconds (a millisecond offset cut, never
\* rounded, to whole seconds) is "h:MM:SS" when h = floor(s/3600) > 0 and
\* "m:SS" otherwise, with m = floor((s mod 3600)/60) and sec = s mod 60: the
\* last fields are two digits wide, the first is unpadded; 0 gives "0:00",
\* 65 gives "1:05", 3661 gives "1:01:01" and 59.9 gives "0:59".
C10_FormatTimestamp ==
    fmt.called =>
        LET s == fmt.millis \div 1000
            h == s \div 3600
            m == (s % 3600) \div 60
            sec == s % 60
            fields == SplitAtColons(fmt.result)
        IN  /\ IF h > 0
               THEN /\ Len(fields) = 3
                    /\ Unpadded(fields[1]) /\ NumberOf(fields[1]) = h
                    /\ TwoDigits(fields[2], m)
                    /\ TwoDigits(fields[3], sec)
               ELSE /\ Len(fields) = 2
                    /\ Unpadded(fields[1]) /\ NumberOf(fields[1]) = m
                    /\ TwoDigits(fields[2], sec)
            /\ fmt.millis = 0 => fmt.result = <<"0", ":", "0", "0">>
            /\ fmt.millis = 65000 => fmt.result = <<"1", ":", "0", "5">>
            /\ fmt.millis = 3661000 => fmt.result = <<"1", ":", "0", "1", ":", "0", "1">>
            /\ fmt.millis = 59900 => fmt.result = <<"0", ":", "5", "9">>

\* C10 witness: 3661.9 seconds were formatted, hours present and the
\* fraction cut
C10_Witness ==
    /\ fmt.called
    /\ fmt.millis = 3661900
    /\ fmt.result = <<"1", ":", "0", "1", ":", "0", "1">>

\* i mod c = 0 for a cadence c >= 1; a cadence of 0 divides nothing and a
\* negative one counts as its absolute value
IsMultiple(i, c) == c # 0 /\ i % (IF c < 0 THEN 0 - c ELSE c) = 0

\* the piece of the markdown body the claim gives fragment i (counted from 0)
ExpectedPiece(lines, i, c) ==
    (IF IsMultiple(i, c)
     THEN <<"**[">> \o formatTimestamp(lines[i + 1].offset) \o <<"]** ">>
     ELSE <<>>)
    \o <<lines[i + 1].text, " ">>
    \o (IF IsMultiple(i + 1, c) THEN <<NL, NL>> ELSE <<>>)

RECURSIVE ExpectedBody(_, _, _)
\* the pieces of the fragments 0 .. n-1 in order
ExpectedBody(lines, n, c) ==
    IF n = 0 THEN <<>>
    ELSE ExpectedBody(lines, n - 1, c) \o ExpectedPiece(lines, n - 1, c)

ExpectedHeading(transcript, url) ==
    <<"## ", IF transcript.title = "" THEN "YouTube Transcript" ELSE transcript.title,
      NL, NL, "[Video Link](", url, ")", NL, NL>>

ExpectedMarkdown(transcript, url, c) ==
    ExpectedHeading(transcript, url) \o ExpectedBody(transcript.lines, Len(transcript.lines), c)

IsFragmentText(x) == \E i \in 1..Len(FragmentTexts) : FragmentTexts[i] = x

\* the indices (from 0) of the fragments whose text a marker comes right before
MarkedIndices(body, lines) ==
    {i \in 0..(Len(lines) - 1) :
        \E k \in 2..Len(body) : body[k] = lines[i + 1].text /\ body[k - 1] = "]** "}

\* C6: for a cadence c >= 1 the output of formatTranscript is the heading and
\* the link followed by, for each fragment i in order, a bold timestamp
\* marker iff i mod c = 0, the text, one space, and two newlines iff
\* (i+1) mod c = 0; so the texts appear once each in the original order, the
\* markers stand before the fragments 0, c, 2c, ... and no others, and no
\* fragments give an empty body.
C6_MarkdownBody ==
    (md.called /\ settings.timestampMod >= 1) =>
        LET lines == md.transcript.lines
            c == settings.timestampMod
            heading == ExpectedHeading(md.transcript, md.url)
            body == SubSeq(md.output, Len(heading) + 1, Len(md.output))
        IN  /\ SubSeq(md.output, 1, Len(heading)) = heading
            /\ body = ExpectedBody(lines, Len(lines), c)
            /\ SelectSeq(body, IsFragmentText) = [i \in 1..Len(lines) |-> lines[i].text]
            /\ MarkedIndices(body, lines) = {i \in 0..(Len(lines) - 1) : i % c = 0}
            /\ Len(lines) = 0 => body = <<>>

\* C6 witness: five fragments under cadence 2 were formatted: markers before
\* the fragments 0, 2 and 4, the last group left without a paragraph break
C6_Witness ==
    /\ md.called
    /\ settings.timestampMod = 2
    /\ Len(md.transcript.lines) = 5
    /\ md.transcript.lines[3].offset # md.transcript.lines[1].offset
    /\ MarkedIndices(SubSeq(md.output, 10, Len(md.output)), md.transcript.lines) = {0, 2, 4}
    /\ md.output[Len(md.output)] = " "

InsertFinished == ins.phase = "inserted"

\* C8, as claimed: the markdown an insertTranscript call produces is grouped
\* by the cadence that was stored when the call began, whatever the settings
\* tab did while the fetch was pending.
C8_CadenceReadAtStart ==
    InsertFinished =>
        ins.formattedTranscript = ExpectedMarkdown(ins.transcript, ins.url, ins.modAtStart)

\* C8, amended: lang and country are read when the call begins and the fetch
\* keeps them; the cadence is read when the fetch has resolved, so the
\* markdown is grouped by the cadence stored at that moment.
C8_CadenceReadAfterFetch ==
    [][/\ (ins.phase = "idle" /\ ins'.phase = "fetching") =>
             ins'.config = [lang |-> settings.lang, country |-> settings.country]
       /\ ins.phase = "fetching" => ins'.config = ins.config
       /\ (ins.phase = "fetching" /\ ins'.phase = "inserted") =>
             ins'.formattedTranscript =
                 ExpectedMarkdown(ins'.transcript, ins.url, settings.timestampMod)
      ]_vars

\* C8 witness: the cadence and the language were edited while the fetch was
\* pending, and the markdown inserted is not the one the cadence at the start
\* would have given
C8_Witness ==
    /\ InsertFinished
    /\ ins.modAtStart >= 1 /\ ins.mod >= 1
    /\ ins.formattedTranscript # ExpectedMarkdown(ins.transcript, ins.url, ins.modAtStart)
    /\ ins.formattedTranscript = ExpectedMarkdown(ins.transcript, ins.url, ins.mod)
    /\ ins.config.lang = "en" /\ settings.lang = "de"

\* the interactive panel p ran its grouping loop over at least one fragment
Grouped(p) ==
    /\ view[p].pc = "shown"
    /\ view[p].threw = ""
    /\ view[p].data.present
    /\ Len(view[p].data.lines) > 0

\* C2: a cadence of 0 or less is rejected before any grouping runs: neither
\* formatTranscript nor the grouping loop of the panel ever runs with a
\* cadence below 1, whatever was typed into the settings field.
C2_CadenceRejected ==
    /\ InsertFinished => ins.mod >= 1
    /\ \A p \in PanelIds : Grouped(p) => view[p].timestampMod >= 1

\* the length of the match of the pattern the claim gives,
\* ^---\n(?:.+\n)+?---\n (the dot takes no line end), or -1
DashLineAt(s, q) ==
    At(s, q) = "-" /\ At(s, q + 1) = "-" /\ At(s, q + 2) = "-" /\ At(s, q + 3) = NL

RECURSIVE ClaimFrontmatterEnd(_, _, _)
ClaimFrontmatterEnd(s, q, lines) ==
    IF lines > 0 /\ DashLineAt(s, q)
    THEN q + 3
    ELSE IF At(s, q) \in {"", NL, CR} THEN -1
    ELSE LET r == CHOOSE k \in q..(Len(s) + 1) :
                     /\ At(s, k) \in {"", NL, CR}
                     /\ \A j \in q..(k - 1) : At(s, j) \notin {"", NL, CR}
         IN  IF At(s, r) = NL THEN ClaimFrontmatterEnd(s, r + 1, lines + 1) ELSE -1

ClaimFrontmatterLength(content) ==
    IF DashLineAt(content, 1)
    THEN ClaimFrontmatterEnd(content, 5, 0)
    ELSE -1

\* the positions where a closing ---\r?\n starts, and where it ends
IsCloser(s, e) ==
    /\ At(s, e) = "-" /\ At(s, e + 1) = "-" /\ At(s, e + 2) = "-"
    /\ \/ At(s, e + 3) = NL
       \/ At(s, e + 3) = CR /\ At(s, e + 4) = NL

CloserEnd(s, e) == IF At(s, e + 3) = NL THEN e + 4 ELSE e + 5

\* a position right after a line end from which the pattern can be finished:
\* a closer starts there, or after at least two more characters ending a line
CanFinish(s, q) ==
    /\ q >= 2 /\ s[q - 1] = NL
    /\ \/ IsCloser(s, q)
       \/ \E e \in (q + 2)..Len(s) : s[e - 1] = NL /\ IsCloser(s, e)

RECURSIVE PatternEnd(_, _, _)
\* the lazy search from position q after `iterations` iterations of the
\* group: it leaves at a closer, else takes the shortest next iteration from
\* which the pattern can still be finished
PatternEnd(s, q, iterations) ==
    IF iterations > 0 /\ IsCloser(s, q) THEN CloserEnd(s, q)
    ELSE LET next == {q2 \in (q + 2)..(Len(s) + 1) : CanFinish(s, q2)}
         IN  IF next = {} THEN 0
             ELSE PatternEnd(s, CHOOSE q2 \in next : \A o \in next : q2 <= o,
                             iterations + 1)

\* the length of the match of /^---\r?\n(?:.+?\r?\n)+?---\r?\n/s, or -1
PatternFrontmatterLength(content) ==
    IF ~IsCloser(content, 1) THEN -1
    ELSE LET e == PatternEnd(content, CloserEnd(content, 1), 0)
         IN  IF e = 0 THEN -1 ELSE e - 1

\* the insertion the claim describes for a frontmatter block of length fm
\* (-1: none)
PlannedAsClaimed(fm) ==
    IF fm >= 0 /\ ins.cursorOffset <= fm
    THEN /\ ins.insertPosition = fm
         /\ ins.inserted =
               (IF At(ins.content, fm + 1) = NL /\ At(ins.content, fm + 2) = NL
                THEN <<>> ELSE <<NL>>) \o ins.formattedTranscript
    ELSE /\ ins.insertPosition = ins.cursorOffset
         /\ ins.inserted = ins.formattedTranscript

NoCr(content) == \A i \in 1..Len(content) : content[i] # CR

\* C5, as claimed: with a frontmatter block matching ^---\n(?:.+\n)+?---\n at
\* offset 0, of length frontmatterEnd, and the cursor at or before its end,
\* the text goes in at frontmatterEnd, with one newline before it exactly
\* when the two characters after frontmatterEnd are not "\n\n"; in every
\* other case it goes in at the cursor with nothing before it.  Stated for
\* the documents whose line ends are all \n, the only ones the claim's
\* pattern speaks of.
C5_PlanWithClaimedPattern ==
    (InsertFinished /\ NoCr(ins.content)) =>
        PlannedAsClaimed(ClaimFrontmatterLength(ins.content))

\* C5, amended: the same with the block the code looks for, a match of
\* /^---\r?\n(?:.+?\r?\n)+?---\r?\n/s: line ends may be \r\n and, the dot
\* taking line ends too, the block may hold empty lines.  The text is what
\* replaceRange then puts into the document at that offset.
C5_PlanWithCodePattern ==
    InsertFinished =>
        /\ PlannedAsClaimed(PatternFrontmatterLength(ins.content))
        /\ editor.content =
              SubSeq(ins.content, 1, ins.insertPosition) \o ins.inserted
                  \o SubSeq(ins.content, ins.insertPosition + 1, Len(ins.content))

\* C5 witness: the cursor stood inside a frontmatter block that no blank line
\* follows, and the text went in after the block behind a newline
C5_Witness ==
    /\ InsertFinished
    /\ PatternFrontmatterLength(ins.content) > 0
    /\ ins.cursorOffset > 0
    /\ ins.cursorOffset < PatternFrontmatterLength(ins.content)
    /\ ins.insertPosition = PatternFrontmatterLength(ins.content)
    /\ Head(ins.inserted) = NL
    /\ Len(ins.content) > ins.insertPosition

IsBlock(el) == el.kind = "transcript-block"

IsTitle(el) == el.kind = "title"

\* the blocks panel p shows, in order
Blocks(p) == SelectSeq(view[p].content, IsBlock)

\* C1: the grouping loop of the panel over n > 0 fragments with a cadence
\* c >= 1 emits ceil(n / c) blocks: the group still held in `quote` when the
\* iteration ends is emitted too.
C1_BlockCount ==
    \A p \in PanelIds :
        (Grouped(p) /\ view[p].timestampMod >= 1) =>
            Len(Blocks(p)) = CeilDiv(Len(view[p].data.lines), view[p].timestampMod)

\* C3, as claimed: a failed title lookup and a failed transcript fetch are
\* independent: after a failed title lookup the transcript is still fetched,
\* after a failed fetch the title rendered before stays, and neither puts an
\* error in place of the whole panel.
C3_IndependentFailures ==
    \A p \in PanelIds :
        /\ view[p].threw = "title" => view[p].fetchIssued
        /\ view[p].threw = "fetch" =>
              \E k \in 1..Len(view[p].content) : IsTitle(view[p].content[k])

\* C3, amended: the title lookup and the transcript fetch share one catch
\* block: when either fails the whole panel content is replaced by an
\* "Error" heading and the error text, so a title rendered before is gone;
\* and after a failed title lookup the transcript is never fetched.
C3_OneCatchBlock ==
    \A p \in PanelIds :
        view[p].threw # "" =>
            /\ Len(view[p].content) = 2
            /\ view[p].content[1].kind = "h4"
            /\ view[p].content[1].text = <<"Error">>
            /\ view[p].content[2].kind = "div"
            /\ view[p].content[2].text \in {<<err>> : err \in ViewErrors}
            /\ view[p].threw = "title" => ~view[p].fetchIssued

\* C3 witness: the fetch of a panel failed after its title had been rendered
C3_Witness ==
    \E p \in PanelIds :
        /\ view[p].pc = "shown"
        /\ view[p].threw = "fetch"
        /\ view[p].fetchIssued

\* C4: a fetch that succeeds with an absent or an empty fragment list is
\* reported as 'no transcript', which is not the report of a failed fetch:
\* by the insert command with its notice, by the panel with its "No
\* transcript found" content.
C4_NoCaptionsReported ==
    /\ (ins.phase \in {"empty", "inserted"} /\ noTranscript(ins.transcript)) =>
          /\ notices[Len(notices)] = <<"No transcript found for this video">>
          /\ ins.phase = "empty"
    /\ \A p \in PanelIds :
          (/\ view[p].pc = "shown"
           /\ view[p].threw = ""
           /\ ~view[p].data.present \/ Len(view[p].data.lines) = 0) =>
              /\ view[p].content # <<>>
              /\ view[p].content[1].text = <<"No transcript found">>

\* the index (from 1) of the fragment of `lines` with this text
FragmentIndex(lines, text) == CHOOSE i \in 1..Len(lines) : lines[i].text = text

\* the millisecond offset a block is anchored at
Anchor(block) == NumberOf(block.timestamp)

\* C7: every block the grouping loop emits is anchored at the offset of the
\* first fragment whose text it holds (the fragment that opened the buffer,
\* the deferred fragment 0 included), holds the texts of consecutive
\* fragments from that one on, and links to url + "&t=" + floor(anchor/1000);
\* for fragments in non-decreasing offset order the anchors of successive
\* blocks are non-decreasing.
C7_BlockAnchors ==
    \A p \in PanelIds :
        Grouped(p) =>
            LET lines == view[p].data.lines
                blocks == Blocks(p)
            IN  /\ \A k \in 1..Len(blocks) :
                      LET b == blocks[k]
                          first == FragmentIndex(lines, b.text[1])
                      IN  /\ b.text # <<>>
                          /\ \E i \in 1..Len(lines) : lines[i].text = b.text[1]
                          /\ AllDigits(b.timestamp)
                          /\ Anchor(b) = lines[first].offset
                          /\ \A j \in 1..(Len(b.text) \div 2) :
                                /\ b.text[2 * j - 1] = lines[first + j - 1].text
                                /\ b.text[2 * j] = " "
                          /\ Len(b.href) > 2
                          /\ b.href[1] = view[p].url
                          /\ b.href[2] = "&t="
                          /\ Unpadded(SubSeq(b.href, 3, Len(b.href)))
                          /\ NumberOf(SubSeq(b.href, 3, Len(b.href)))
                                 = lines[first].offset \div 1000
                          /\ (k = 1) => first = 1
                /\ IsSorted(lines) =>
                      \A k \in 1..(Len(blocks) - 1) : Anchor(blocks[k]) <= Anchor(blocks[k + 1])

\* C7 witness: a panel shows two blocks of two fragments each, the first
\* opened by fragment 0, anchored at different offsets in rising order
C7_Witness ==
    \E p \in PanelIds :
        /\ Grouped(p)
        /\ view[p].timestampMod = 2
        /\ IsSorted(view[p].data.lines)
        /\ Len(Blocks(p)) = 2
        /\ Anchor(Blocks(p)[1]) < Anchor(Blocks(p)[2])
        /\ view[p].data.lines[2].offset > view[p].data.lines[1].offset
        /\ view[p].url # ""

\* C9: after any opens and closes of panels, every panel still open that was
\* opened with a url finds that url in leafUrls at its own position: closing
\* a panel removed that panel's entry and no other's, also when the closing
\* panel was no longer among the open leaves and its index was -1.
C9_OpenPanelsKeepTheirUrl ==
    \A p \in PanelIds :
        (/\ settings.leafUrls.defined
         /\ view[p].pc \notin {"closed", "open"}
         /\ view[p].stateUrl # "") =>
            leafUrlsGet(settings.leafUrls, getLeafIndex(leaves, p)) = view[p].stateUrl

=============================================================================
